---------------------------- MODULE Spec2Model ----------------------------
(***************************************************************************)
(* Model of calendar_generator.py: the field parsers, the table            *)
(* standardizer, the per-file record loader, the grid builder and the      *)
(* matrix renderer, as the top-level script runs them.                     *)
(*                                                                         *)
(* Text is modelled as a sequence of one-character strings, so that        *)
(* strip / lower / re.sub / re.match / strftime are computed character by  *)
(* character.                                                              *)
(***************************************************************************)
EXTENDS Integers, Sequences, FiniteSets, TLC

VARIABLES
    pc,               \* position of the script: start, load, check, build, render, save, done, failed
    error,            \* the exception that ended the run ("" while none)
    paths,            \* sorted(glob.glob(INPUT_GLOB))
    students,         \* students list (one append per file entered)
    records,          \* records list
    raw,              \* raw = pd.read_excel(path) of the file read last
    rowsRead,         \* number of sheet rows read so far (bounds the run)
    df_all,           \* sorted frame of all records
    student_list,
    student_to_color,
    grid_start,
    grid_end,
    days_present,
    cell_text,        \* (day, slot, student) -> list of labels
    cell_has_class,   \* set of (day, slot, student)
    ws,               \* rows of the Matrix sheet built in memory
    ws_leg,           \* rows of the Legend sheet built in memory
    output,           \* content of OUTPUT_XLSX on disk
    callArg,          \* argument of a single parser / standardizer call
    callRet           \* its result

vars == <<pc, error, paths, students, records, raw, rowsRead, df_all,
          student_list, student_to_color, grid_start, grid_end, days_present,
          cell_text, cell_has_class, ws, ws_leg, output, callArg, callRet>>

pipeVars == <<pc, error, paths, students, records, raw, rowsRead, df_all,
              student_list, student_to_color, grid_start, grid_end,
              days_present, cell_text, cell_has_class, ws, ws_leg, output>>

-----------------------------------------------------------------------------
(* Bounds of the model *)

MaxRows == 2          \* sheet rows read in one run, over all files
MaxCols == 5          \* columns of a sheet given to the standardizer alone

-----------------------------------------------------------------------------
(* Characters and strings *)

EN_DASH == "U+2013"   \* the one character U+2013 of the label f-string

\* The characters of the model in code-point order.
CHARS == <<"\t", "\n", " ", "!", "-", ".",
           "0", "1", "2", "3", "4", "5", "6", "7", "8", "9", ":",
           "A", "B", "C", "D", "E", "F", "G", "H", "I", "J", "K", "L", "M",
           "N", "O", "P", "Q", "R", "S", "T", "U", "V", "W", "X", "Y", "Z",
           "a", "b", "c", "d", "e", "f", "g", "h", "i", "j", "k", "l", "m",
           "n", "o", "p", "q", "r", "s", "t", "u", "v", "w", "x", "y", "z",
           EN_DASH>>

\* ord(c), up to the order of the characters
OrdMap == [c \in {CHARS[i] : i \in 1..Len(CHARS)} |->
              CHOOSE i \in 1..Len(CHARS) : CHARS[i] = c]

Ord(c) == OrdMap[c]

DIGITS == <<"0", "1", "2", "3", "4", "5", "6", "7", "8", "9">>

DigitSet == {DIGITS[i] : i \in 1..10}

IsDigit(c) == c \in DigitSet

DigitVal(c) == OrdMap[c] - OrdMap["0"]

UpperSet == {CHARS[i] : i \in OrdMap["A"]..OrdMap["Z"]}

LowerSet == {CHARS[i] : i \in OrdMap["a"]..OrdMap["z"]}

IsLowerAZ(c) == c \in LowerSet

IsSpace(c) == c \in {" ", "\t", "\n"}

LowerMap == [c \in UpperSet |-> CHARS[OrdMap[c] + (OrdMap["a"] - OrdMap["A"])]]

LowerChar(c) == IF c \in UpperSet THEN LowerMap[c] ELSE c

\* str.lower()
Lower(s) == [i \in 1..Len(s) |-> LowerChar(s[i])]

RECURSIVE LStrip(_)
LStrip(s) == IF s # <<>> /\ IsSpace(Head(s)) THEN LStrip(Tail(s)) ELSE s

RECURSIVE RStrip(_)
RStrip(s) ==
    IF s # <<>> /\ IsSpace(s[Len(s)]) THEN RStrip(SubSeq(s, 1, Len(s) - 1)) ELSE s

\* str.strip()
Strip(s) == RStrip(LStrip(s))

\* Python's < on two strings (code-point lexicographic order)
RECURSIVE StrLess(_, _)
StrLess(a, b) ==
    IF b = <<>> THEN FALSE
    ELSE IF a = <<>> THEN TRUE
    ELSE IF Head(a) = Head(b) THEN StrLess(Tail(a), Tail(b))
    ELSE Ord(Head(a)) < Ord(Head(b))

Range(f) == {f[i] : i \in DOMAIN f}

-----------------------------------------------------------------------------
(* Cell values of a sheet *)

\* A cell is NaN (empty), a string, a datetime.time or a datetime.datetime.
Cell(kind, s, h, m, sec) ==
    [kind |-> kind, s |-> s, hour |-> h, minute |-> m, second |-> sec]

NaN == Cell("nan", <<>>, 0, 0, 0)

None == Cell("none", <<>>, 0, 0, 0)

Str(s) == Cell("str", s, 0, 0, 0)

Time(h, m, sec) == Cell("time", <<>>, h, m, sec)

DateTime(h, m, sec) == Cell("datetime", <<>>, h, m, sec)

\* pd.isna(val) / what dropna treats as missing
IsNA(c) == c.kind \in {"nan", "none"}

TwoDigits(n) == <<DIGITS[(n \div 10) + 1], DIGITS[(n % 10) + 1]>>

\* str(val)
ToStr(c) ==
    CASE c.kind = "str" -> c.s
      [] c.kind = "nan" -> <<"n", "a", "n">>
      [] c.kind = "none" -> <<"N", "o", "n", "e">>
      [] OTHER -> TwoDigits(c.hour) \o <<":">> \o TwoDigits(c.minute)
                  \o <<":">> \o TwoDigits(c.second)

\* The outcome of a call: a returned value or a raised exception.
Ok(v) == [ok |-> TRUE, val |-> v, err |-> ""]

Raise(e) == [ok |-> FALSE, val |-> None, err |-> e]

-----------------------------------------------------------------------------
(* Field parsers *)

TIME_STEP_MIN == 15

DAY_ORDER == <<"Monday", "Tuesday", "Wednesday", "Thursday", "Friday",
               "Saturday", "Sunday">>

\* DAY_ALIASES as a sequence of <<key, weekday>> pairs
DAY_ALIASES ==
    << <<<<"m", "o", "n">>, "Monday">>,
       <<<<"m", "o", "n", "d", "a", "y">>, "Monday">>,
       <<<<"t", "u", "e">>, "Tuesday">>,
       <<<<"t", "u", "e", "s">>, "Tuesday">>,
       <<<<"t", "u", "e", "s", "d", "a", "y">>, "Tuesday">>,
       <<<<"w", "e", "d">>, "Wednesday">>,
       <<<<"w", "e", "d", "s">>, "Wednesday">>,
       <<<<"w", "e", "d", "n", "e", "s", "d", "a", "y">>, "Wednesday">>,
       <<<<"t", "h", "u">>, "Thursday">>,
       <<<<"t", "h", "u", "r">>, "Thursday">>,
       <<<<"t", "h", "u", "r", "s">>, "Thursday">>,
       <<<<"t", "h", "u", "r", "s", "d", "a", "y">>, "Thursday">>,
       <<<<"f", "r", "i">>, "Friday">>,
       <<<<"f", "r", "i", "d", "a", "y">>, "Friday">>,
       <<<<"s", "a", "t">>, "Saturday">>,
       <<<<"s", "a", "t", "u", "r", "d", "a", "y">>, "Saturday">>,
       <<<<"s", "u", "n">>, "Sunday">>,
       <<<<"s", "u", "n", "d", "a", "y">>, "Sunday">> >>

\* s in DAY_ALIASES
InAliases(s) == \E i \in 1..Len(DAY_ALIASES) : DAY_ALIASES[i][1] = s

\* DAY_ALIASES[s]
AliasOf(s) == DAY_ALIASES[CHOOSE i \in 1..Len(DAY_ALIASES) : DAY_ALIASES[i][1] = s][2]

\* re.sub(r"[^a-z]", "", s)
SubNonLetters(s) == SelectSeq(s, IsLowerAZ)

\* s[:n]
Prefix(s, n) == SubSeq(s, 1, IF Len(s) < n THEN Len(s) ELSE n)

\* Lines 44-48, given the cleaned text s
DayOfLetters(s) ==
    IF InAliases(s) THEN Ok(AliasOf(s))
    ELSE IF Len(s) >= 3 /\ InAliases(Prefix(s, 3)) THEN Ok(AliasOf(Prefix(s, 3)))
    ELSE Raise("Unrecognized day")

\* the text is not lowercased
normalize_day_NoLower(val) == DayOfLetters(SubNonLetters(Strip(ToStr(val))))

normalize_day(val) == DayOfLetters(SubNonLetters(Lower(Strip(ToStr(val)))))

\* str.replace(".", ":")
ReplaceDots(s) == [i \in 1..Len(s) |-> IF s[i] = "." THEN ":" ELSE s[i]]

AllDigits(s) == \A i \in 1..Len(s) : IsDigit(s[i])

\* int() of a digit string
RECURSIVE ToInt(_)
ToInt(s) == IF s = <<>> THEN 0 ELSE 10 * ToInt(SubSeq(s, 1, Len(s) - 1)) + DigitVal(s[Len(s)])

\* The position of the first ":" of s
FirstColon(s) ==
    CHOOSE j \in 1..Len(s) : s[j] = ":" /\ \A k \in 1..(j - 1) : s[k] # ":"

\* The split of s at its ":" characters
RECURSIVE SplitColon(_)
SplitColon(s) ==
    IF \E i \in 1..Len(s) : s[i] = ":"
    THEN <<SubSeq(s, 1, FirstColon(s) - 1)>>
         \o SplitColon(SubSeq(s, FirstColon(s) + 1, Len(s)))
    ELSE <<s>>

\* The groups (\d{1,2}):(\d{2})(?::(\d{2}))? of the pieces g, or <<>>
MatchGroups(g) ==
    IF /\ Len(g) \in {2, 3}
       /\ Len(g[1]) \in {1, 2} /\ AllDigits(g[1])
       /\ Len(g[2]) = 2 /\ AllDigits(g[2])
       /\ (Len(g) = 3 => Len(g[3]) = 2 /\ AllDigits(g[3]))
    THEN g
    ELSE <<>>

\* re.match(r"^\s*(\d{1,2}):(\d{2})(?::(\d{2}))?\s*$", s): the groups, or <<>>
MatchTime(s) == MatchGroups(SplitColon(Strip(s)))

\* datetime.time(hh, mm, 0)
MakeTime(hh, mm) ==
    IF hh > 23 THEN Raise("hour must be in 0..23")
    ELSE IF mm > 59 THEN Raise("minute must be in 0..59")
    ELSE Ok(Time(hh, mm, 0))

\* Lines 61-65, given the match m
TimeOfMatch(m) ==
    IF m = <<>> THEN Raise("Unrecognized time format")
    ELSE MakeTime(ToInt(m[1]), ToInt(m[2]))

parse_time(val) ==
    IF IsNA(val) THEN Ok(None)
    ELSE IF val.kind \in {"datetime", "time"} THEN Ok(Time(val.hour, val.minute, 0))
    ELSE TimeOfMatch(MatchTime(ReplaceDots(Strip(ToStr(val)))))

-----------------------------------------------------------------------------
(* Table standardizer.  A DataFrame is [columns |-> labels, rows |-> rows],  *)
(* every row a sequence of cells as long as columns.                         *)

COURSE == <<"c", "o", "u", "r", "s", "e">>

DAY == <<"d", "a", "y">>

START == <<"s", "t", "a", "r", "t">>

END == <<"e", "n", "d">>

CAND_COURSE ==
    << <<"c", "o", "u", "r", "s", "e">>,
       <<"c", "o", "u", "r", "s", "e", " ", "n", "a", "m", "e">>,
       <<"s", "u", "b", "j", "e", "c", "t">> >>

CAND_DAY ==
    << <<"d", "a", "y">>,
       <<"d", "a", "y", " ", "o", "f", " ", "t", "h", "e", " ", "w", "e", "e", "k">>,
       <<"w", "e", "e", "k", "d", "a", "y">> >>

CAND_START ==
    << <<"s", "t", "a", "r", "t">>,
       <<"s", "t", "a", "r", "t", " ", "t", "i", "m", "e">>,
       <<"t", "i", "m", "e", " ", "f", "r", "o", "m">>,
       <<"f", "r", "o", "m">>,
       <<"t", "i", "m", "e", " ", "s", "t", "a", "r", "t">> >>

CAND_END ==
    << <<"e", "n", "d">>,
       <<"e", "n", "d", " ", "t", "i", "m", "e">>,
       <<"t", "i", "m", "e", " ", "t", "o">>,
       <<"t", "o">>,
       <<"t", "i", "m", "e", " ", "e", "n", "d">> >>

\* The indices, in order, at which the boolean mask is true
RECURSIVE MaskIdx(_, _)
MaskIdx(mask, i) ==
    IF i > Len(mask) THEN <<>>
    ELSE (IF mask[i] THEN <<i>> ELSE <<>>) \o MaskIdx(mask, i + 1)

SelectIdx(mask) == MaskIdx(mask, 1)

\* df.iloc[:, idx] with the labels kept
TakeCols(df, idx) ==
    [columns |-> [k \in 1..Len(idx) |-> df.columns[idx[k]]],
     rows |-> [r \in 1..Len(df.rows) |->
                  [k \in 1..Len(idx) |-> df.rows[r][idx[k]]]]]

\* df.iloc[idx, :]
TakeRows(df, idx) ==
    [columns |-> df.columns, rows |-> [i \in 1..Len(idx) |-> df.rows[idx[i]]]]

\* df.dropna(axis=0, how="all")
DropEmptyRows(df) ==
    TakeRows(df, SelectIdx([r \in 1..Len(df.rows) |->
                               \E k \in 1..Len(df.columns) : ~IsNA(df.rows[r][k])]))

\* df.dropna(axis=1, how="all")
DropEmptyCols(df) ==
    TakeCols(df, SelectIdx([k \in 1..Len(df.columns) |->
                               \E r \in 1..Len(df.rows) : ~IsNA(df.rows[r][k])]))

\* df.columns = [str(c).strip() for c in df.columns]
StripLabels(df) ==
    [columns |-> [k \in 1..Len(df.columns) |-> Strip(df.columns[k])],
     rows |-> df.rows]

\* obj is always the DataFrame pd.read_excel returned
clean_df(obj) == StripLabels(DropEmptyCols(DropEmptyRows(obj)))

\* cols = {str(c).strip().lower(): c for c in df.columns}: a later column
\* replaces an earlier one with the same key
ColsKey(c) == Lower(Strip(c))

InCols(df, key) == \E k \in 1..Len(df.columns) : ColsKey(df.columns[k]) = key

ColsAt(df, key) ==
    df.columns[CHOOSE k \in 1..Len(df.columns) :
                  /\ ColsKey(df.columns[k]) = key
                  /\ \A j \in (k + 1)..Len(df.columns) : ColsKey(df.columns[j]) # key]

\* pick(*cands): the label of the first candidate that is a key of cols, or None
\* What pick returns when no candidate is a key of cols
NoLabel == <<"None">>

RECURSIVE pick(_, _)
pick(df, cands) ==
    IF cands = <<>> THEN NoLabel
    ELSE IF InCols(df, Head(cands)) THEN ColsAt(df, Head(cands))
    ELSE pick(df, Tail(cands))

\* truth value of a picked label
Truthy(c) == c # NoLabel /\ c # <<>>

\* df[[l1, l2, l3, l4]]: for each label in turn, every column carrying it
RECURSIVE SelectLabels(_, _)
SelectLabels(df, labels) ==
    IF labels = <<>> THEN <<>>
    ELSE SelectIdx([k \in 1..Len(df.columns) |-> df.columns[k] = Head(labels)])
         \o SelectLabels(df, Tail(labels))

\* out.columns = ["course", "day", "start", "end"]
SetColumns(out) ==
    IF Len(out.columns) # 4 THEN Raise("Length mismatch")
    ELSE Ok([columns |-> <<COURSE, DAY, START, END>>, rows |-> out.rows])

\* Lines 184-192, given the cleaned frame and the four picked labels
SelectRoles(df, c_course, c_day, c_start, c_end) ==
    IF Truthy(c_course) /\ Truthy(c_day) /\ Truthy(c_start) /\ Truthy(c_end)
    THEN SetColumns(TakeCols(df, SelectLabels(df, <<c_course, c_day, c_start, c_end>>)))
    ELSE SetColumns(TakeCols(df, <<1, 2, 3, 4>>))

\* Lines 164-192, given the cleaned frame
StandardizeClean(df) ==
    IF Len(df.columns) < 4 THEN Raise("InsufficientColumns")
    ELSE SelectRoles(df, pick(df, CAND_COURSE), pick(df, CAND_DAY),
                     pick(df, CAND_START), pick(df, CAND_END))

standardize_df(obj) == StandardizeClean(clean_df(obj))

-----------------------------------------------------------------------------
(* Single calls of the standardizer and of normalize_day *)

\* OUTPUT_XLSX before wb.save: no such file
Absent == [exists |-> FALSE, Matrix |-> <<>>, Legend |-> <<>>]

Pending == [ok |-> FALSE, val |-> None, err |-> "pending"]

Idle == [ok |-> FALSE, val |-> None, err |-> "idle"]

NoFrame == [columns |-> <<>>, rows |-> <<>>]

\* Header labels a sheet may carry
StdLabels ==
    { <<"S", "u", "b", "j", "e", "c", "t">>,
      <<"W", "e", "e", "k", "d", "a", "y">>,
      <<"D", "a", "y">>,
      <<"D", "a", "y", " ">>,
      <<"F", "r", "o", "m">>,
      <<"T", "o">>,
      <<"N", "o", "t", "e", "s">> }

\* Headers as pd.read_excel delivers them: pairwise different labels
StdHeaders ==
    UNION { { h \in [1..n -> StdLabels] :
                \A i, j \in 1..n : i # j => h[i] # h[j] } : n \in 3..MaxCols }

\* One data row whose cell in column k names k; column e (if any) is empty
StdTable(h, e) ==
    [columns |-> h,
     rows |-> << [k \in 1..Len(h) |-> IF k = e THEN NaN ELSE Str(<<DIGITS[k + 1]>>)] >>]

StdTables == { StdTable(h, e) : h \in StdHeaders, e \in 0..MaxCols }

PipeIdle ==
    /\ pc = "idle" /\ error = "" /\ paths = <<>> /\ students = <<>>
    /\ records = <<>> /\ raw = NoFrame /\ rowsRead = 0 /\ df_all = <<>>
    /\ student_list = <<>> /\ student_to_color = <<>>
    /\ grid_start = 0 /\ grid_end = 0 /\ days_present = <<>>
    /\ cell_text = <<>> /\ cell_has_class = {}
    /\ ws = <<>> /\ ws_leg = <<>> /\ output = Absent

InitStd ==
    /\ PipeIdle
    /\ callArg \in StdTables
    /\ callRet = Pending

CallStandardize ==
    /\ callRet = Pending
    /\ callRet' = standardize_df(callArg)
    /\ UNCHANGED <<callArg, pipeVars>>

NextStd == CallStandardize

SpecStd == InitStd /\ [][NextStd]_vars

\* The call has returned or raised
Returned == callRet.err \notin {"pending", "idle"}

\* C6: with fewer than 4 non-empty columns the standardizer fails with
\* InsufficientColumns; when every role has a non-empty column whose
\* lowercased, trimmed label is a candidate name of the role, the output is
\* such columns in the order course, day, start, end, whatever their
\* positions; otherwise the output is the first 4 non-empty columns.
NonEmptyRowIdx(t) ==
    LET keep(r) == \E k \in 1..Len(t.columns) : ~IsNA(t.rows[r][k])
    IN  SelectIdx([i \in 1..Len(t.rows) |-> keep(i)])

NonEmptyColIdx(t) ==
    LET keep(k) == \E r \in 1..Len(t.rows) : ~IsNA(t.rows[r][k])
    IN  SelectIdx([i \in 1..Len(t.columns) |-> keep(i)])

RoleColumns(t, cands) ==
    { k \in Range(NonEmptyColIdx(t)) : Lower(Strip(t.columns[k])) \in Range(cands) }

Projection(t, idx) ==
    LET rs == NonEmptyRowIdx(t)
    IN  [i \in 1..Len(rs) |-> [k \in 1..Len(idx) |-> t.rows[rs[i]][idx[k]]]]

C6_ColumnResolution ==
    Returned =>
        LET t == callArg
            kept == NonEmptyColIdx(t)
            allMatched == /\ RoleColumns(t, CAND_COURSE) # {}
                          /\ RoleColumns(t, CAND_DAY) # {}
                          /\ RoleColumns(t, CAND_START) # {}
                          /\ RoleColumns(t, CAND_END) # {}
        IN  IF Len(kept) < 4
            THEN ~callRet.ok /\ callRet.err = "InsufficientColumns"
            ELSE /\ callRet.ok
                 /\ callRet.val.columns = <<COURSE, DAY, START, END>>
                 /\ IF allMatched
                    THEN \E c \in RoleColumns(t, CAND_COURSE), d \in RoleColumns(t, CAND_DAY),
                            b \in RoleColumns(t, CAND_START), e \in RoleColumns(t, CAND_END) :
                            callRet.val.rows = Projection(t, <<c, d, b, e>>)
                    ELSE callRet.val.rows = Projection(t, SubSeq(kept, 1, 4))

-----------------------------------------------------------------------------

UpperMap == [c \in LowerSet |-> CHARS[OrdMap[c] - (OrdMap["a"] - OrdMap["A"])]]

\* The ways a day name is written in a sheet
CaseForm(key, form) ==
    CASE form = "lower" -> key
      [] form = "upper" -> [i \in 1..Len(key) |-> UpperMap[key[i]]]
      [] form = "title" -> [i \in 1..Len(key) |-> IF i = 1 THEN UpperMap[key[i]] ELSE key[i]]

CaseForms == {"lower", "upper", "title"}

Befores == { <<>>, <<" ">>, <<"\t", " ">>, <<"1", ".">> }

Afters == { <<>>, <<" ">>, <<".">>, <<"!", " ", "\n">> }

Decorated(key, form, before, after) == before \o CaseForm(key, form) \o after

OtherDayTexts ==
    { <<>>, <<"m", "o">>, <<"x", "y", "z">>, <<"F", "u", "n", "d", "a", "y">>,
      <<"9", "a", "m">>, <<"t", "u", " ", "e", "s">>,
      <<"M", "o", "n", "k", "e", "y">>, <<"T", "h", "u", "r", "z">>,
      <<"d", "a", "y">>, <<"1", "2">> }

DayInputs ==
    { Str(Decorated(DAY_ALIASES[i][1], f, b, a)) :
        i \in 1..Len(DAY_ALIASES), f \in CaseForms, b \in Befores, a \in Afters }
    \cup { Str(s) : s \in OtherDayTexts }
    \cup { NaN, Time(8, 0, 0) }

InitDay ==
    /\ PipeIdle
    /\ callArg \in DayInputs
    /\ callRet = Pending

CallNormalizeDay ==
    /\ callRet = Pending
    /\ callRet' = normalize_day(callArg)
    /\ UNCHANGED <<callArg, pipeVars>>

NextDay == CallNormalizeDay

SpecDay == InitDay /\ [][NextDay]_vars

AliasKeys == { DAY_ALIASES[i][1] : i \in 1..Len(DAY_ALIASES) }

\* The letters of a cell's text, lowercased
LettersOf(c) == SelectSeq(Lower(ToStr(c)), IsLowerAZ)

Unrecognized(c) ==
    LET s == LettersOf(c)
    IN  /\ s \notin AliasKeys
        /\ ~\E k \in AliasKeys : Len(k) = 3 /\ Len(s) >= 3 /\ SubSeq(s, 1, 3) = k

\* C7: every alias key, in any letter case and with surrounding whitespace or
\* non-letter characters, is normalized to the weekday the alias table gives
\* it; a result is always one of Monday..Sunday; an unrecognized text raises
\* "Unrecognized day" and returns no weekday.
C7_NormalizeDay ==
    Returned =>
        /\ \A i \in 1..Len(DAY_ALIASES), f \in CaseForms, b \in Befores, a \in Afters :
              callArg = Str(Decorated(DAY_ALIASES[i][1], f, b, a))
                 => callRet.ok /\ callRet.val = DAY_ALIASES[i][2]
        /\ callRet.ok => callRet.val \in Range(DAY_ORDER)
        /\ Unrecognized(callArg) => ~callRet.ok /\ callRet.err = "Unrecognized day"

C7_Witness ==
    /\ Returned
    /\ callArg = Str(Decorated(<<"t", "h", "u", "r", "s">>, "upper", <<"\t", " ">>, <<".">>))
    /\ callRet.ok /\ callRet.val = "Thursday"

-----------------------------------------------------------------------------
(* Grid helpers *)

to_minutes(t) == t.hour * 60 + t.minute

floor_minutes(m, step) == (m \div step) * step

\* rounds down like floor_minutes
ceil_minutes_Floor(m, step) == (m \div step) * step

ceil_minutes(m, step) == ((m + step - 1) \div step) * step

minutes_to_time(m) == MakeTime(m \div 60, m % 60)

\* list(iter_slots(start_min, end_min, step))
RECURSIVE iter_slots(_, _, _)
iter_slots(start_min, end_min, step) ==
    IF start_min < end_min
    THEN <<start_min>> \o iter_slots(start_min + step, end_min, step)
    ELSE <<>>

\* t.strftime("%H:%M")
StrfHHMM(t) == TwoDigits(t.hour) \o <<":">> \o TwoDigits(t.minute)

HEXDIGITS == <<"0", "1", "2", "3", "4", "5", "6", "7", "8", "9",
               "A", "B", "C", "D", "E", "F">>

\* f"{n:02X}"
Hex2(n) == <<HEXDIGITS[(n \div 16) + 1], HEXDIGITS[(n % 16) + 1]>>

ALICE == <<"a", "l", "i", "c", "e">>

BOB == <<"b", "o", "b">>

\* The first three bytes of hashlib.md5(student_id).digest(), for the
\* identifiers of the model
Md5First3(student_id) ==
    CASE student_id = ALICE -> <<99, 132, 226>>
      [] student_id = BOB -> <<159, 157, 81>>
      [] OTHER -> <<0, 0, 0>>

\* int((c + 255) / 2)
Pastel(c) == (c + 255) \div 2

\* Lines 218-225, given the digest bytes
ColorHex(h) == Hex2(Pastel(h[1])) \o Hex2(Pastel(h[2])) \o Hex2(Pastel(h[3]))

student_color_hex(student_id) == ColorHex(Md5First3(student_id))

-----------------------------------------------------------------------------
(* Input files *)

\* os.path.basename(path)
RECURSIVE Basename(_)
Basename(p) ==
    IF \E i \in 1..Len(p) : p[i] = "/"
    THEN Basename(SubSeq(p, (CHOOSE i \in 1..Len(p) : p[i] = "/") + 1, Len(p)))
    ELSE p

\* os.path.splitext(name)[0]
SplitextRoot(name) ==
    LET dots == { i \in 1..Len(name) :
                    name[i] = "." /\ \E j \in 1..(i - 1) : name[j] # "." }
    IN  IF dots = {} THEN name
        ELSE SubSeq(name, 1, (CHOOSE i \in dots : \A j \in dots : j <= i) - 1)

\* sorted(S) for a set of strings
RECURSIVE SortedStrings(_)
SortedStrings(S) ==
    IF S = {} THEN <<>>
    ELSE LET m == CHOOSE x \in S : \A y \in S \ {x} : StrLess(x, y)
         IN  <<m>> \o SortedStrings(S \ {m})

\* The files the glob may match
FILES == { ALICE \o <<".", "x", "l", "s", "x">>, BOB \o <<".", "x", "l", "s", "x">> }

\* The rows a timetable sheet may hold: course, day, start, end and a note
SheetRow(course, day, start, end, note) ==
    [course |-> course, day |-> day, start |-> start, end |-> end, note |-> note]

MATH == Str(<<"M", "a", "t", "h">>)

ART == Str(<<" ", "A", "r", "t", " ">>)

MON == Str(<<"M", "o", "n">>)

T0900 == Str(<<"0", "9", ":", "0", "0">>)

T1000 == Str(<<"1", "0", ":", "0", "0">>)

SheetRows ==
    { SheetRow(MATH, MON, T0900, T1000, NaN),
      SheetRow(ART, Str(<<"T", "U", "E", "S", ".">>), Str(<<"8", ".", "0", "5">>),
               Time(8, 50, 30), NaN),
      SheetRow(MATH, Str(<<"m", "o", "n", "d", "a", "y">>), DateTime(8, 0, 0),
               Str(<<"0", "8", ":", "5", "0">>), NaN),
      SheetRow(ART, MON, Str(<<"2", "3", ":", "0", "0">>),
               Str(<<"2", "3", ":", "5", "0">>), NaN),
      SheetRow(MATH, MON, T1000, T0900, NaN),
      SheetRow(Str(<<" ", " ">>), MON, T0900, T1000, NaN),
      SheetRow(MATH, MON, NaN, T1000, NaN),
      SheetRow(NaN, MON, T0900, T1000, NaN),
      SheetRow(NaN, NaN, NaN, NaN, Str(<<"x">>)),
      SheetRow(MATH, Str(<<"F", "u", "n", "d", "a", "y">>), T0900, T1000, NaN),
      SheetRow(MATH, NaN, T0900, T1000, NaN),
      SheetRow(MATH, MON, Str(<<"9", "a", "m">>), T1000, NaN),
      SheetRow(MATH, MON, T0900, Str(<<"2", "5", ":", "0", "0">>), NaN) }

\* The sheet layouts: the header row and the field each column holds
LAYOUTS ==
    { [header |-> << <<"S", "u", "b", "j", "e", "c", "t">>,
                     <<"W", "e", "e", "k", "d", "a", "y">>,
                     <<"F", "r", "o", "m">>, <<"T", "o">> >>,
       fields |-> <<"course", "day", "start", "end">>],
      [header |-> << <<"N", "o", "t", "e", "s">>, <<"E", "n", "d">>,
                     <<" ", "D", "A", "Y">>, <<"S", "t", "a", "r", "t">>,
                     <<"C", "o", "u", "r", "s", "e">> >>,
       fields |-> <<"note", "end", "day", "start", "course">>],
      [header |-> << <<"C", "o", "u", "r", "s", "e">>, <<"D", "a", "y">>,
                     <<"S", "t", "a", "r", "t">> >>,
       fields |-> <<"course", "day", "start">>] }

\* What pd.read_excel returns for a sheet with this layout and these rows
Sheet(layout, rows) ==
    [columns |-> layout.header,
     rows |-> [i \in 1..Len(rows) |->
                  [k \in 1..Len(layout.fields) |-> rows[i][layout.fields[k]]]]]

Sheets(maxRows) ==
    { Sheet(l, rows) : l \in LAYOUTS,
                       rows \in UNION { [1..n -> SheetRows] : n \in 0..maxRows } }

-----------------------------------------------------------------------------
(* The load loop, lines 238-282 *)

Record(student, course, day, start, end) ==
    [Student |-> student, Course |-> course, Day |-> day, Start |-> start, End |-> end]

\* Series.apply(f), given the outcome of f on each cell in turn: the
\* results, or the first exception raised
ApplyColumn(res) ==
    LET bad == { i \in 1..Len(res) : ~res[i].ok }
    IN  IF bad = {} THEN Ok([i \in 1..Len(res) |-> res[i].val])
        ELSE Raise(res[CHOOSE i \in bad : \A j \in bad : i <= j].err)

\* Lines 275-282: one record per kept row
RowRecords(student_id, course, day, start, end, idx) ==
    [n \in 1..Len(idx) |->
        Record(student_id, course[idx[n]], day[idx[n]], start[idx[n]], end[idx[n]])]

\* Lines 272-282, given the four columns: dropna on the subset, then the
\* rows with a non-empty course
KeepRows(student_id, course, day, start, end) ==
    RowRecords(student_id, course, day, start, end,
               SelectIdx([i \in 1..Len(course) |->
                             /\ ~IsNA(start[i]) /\ ~IsNA(end[i])
                             /\ Len(course[i]) > 0]))

\* Lines 268-282, given the outcome of each column's conversion
LoadColumns(student_id, course, day, start, end) ==
    IF ~day.ok THEN Raise(day.err)
    ELSE IF ~start.ok THEN Raise(start.err)
    ELSE IF ~end.ok THEN Raise(end.err)
    ELSE Ok(KeepRows(student_id, course, day.val, start.val, end.val))

\* Lines 268-282, given df = standardize_df(raw).dropna(how="all")
LoadFrame(student_id, df) ==
    LoadColumns(student_id,
                [i \in 1..Len(df.rows) |-> Strip(ToStr(df.rows[i][1]))],
                ApplyColumn([i \in 1..Len(df.rows) |-> normalize_day(df.rows[i][2])]),
                ApplyColumn([i \in 1..Len(df.rows) |-> parse_time(df.rows[i][3])]),
                ApplyColumn([i \in 1..Len(df.rows) |-> parse_time(df.rows[i][4])]))

\* Line 244 onwards, given the outcome of standardize_df(raw)
LoadStandardized(student_id, std) ==
    IF ~std.ok THEN Raise(std.err)
    ELSE LoadFrame(student_id, DropEmptyRows(std.val))

\* One pass of the loop body after raw = pd.read_excel(path): the records
\* to append, or the exception raised
LoadRows(student_id, sheet) == LoadStandardized(student_id, standardize_df(sheet))

-----------------------------------------------------------------------------
(* Sorting and the occupancy build, lines 287-328 *)

DayIndex(d) == CHOOSE i \in 1..Len(DAY_ORDER) : DAY_ORDER[i] = d

\* a sorts strictly before b under ["Day", "Start", "Student", "Course"]
RecordLess(a, b) ==
    IF a.Day # b.Day THEN DayIndex(a.Day) < DayIndex(b.Day)
    ELSE IF to_minutes(a.Start) # to_minutes(b.Start)
         THEN to_minutes(a.Start) < to_minutes(b.Start)
    ELSE IF a.Student # b.Student THEN StrLess(a.Student, b.Student)
    ELSE StrLess(a.Course, b.Course)

\* insertion of r after every element that does not sort after it
RECURSIVE InsertSorted(_, _)
InsertSorted(sorted, r) ==
    IF sorted = <<>> THEN <<r>>
    ELSE IF RecordLess(r, Head(sorted)) THEN <<r>> \o sorted
    ELSE <<Head(sorted)>> \o InsertSorted(Tail(sorted), r)

\* df_all.sort_values([...]): a stable sort
RECURSIVE sort_values(_)
sort_values(recs) ==
    IF recs = <<>> THEN <<>>
    ELSE InsertSorted(sort_values(SubSeq(recs, 1, Len(recs) - 1)), recs[Len(recs)])

\* start printed twice
Label_StartTwice(r) ==
    r.Course \o <<"\n">> \o StrfHHMM(r.Start) \o <<EN_DASH>> \o StrfHHMM(r.Start)

\* The label f-string of line 323
Label(r) ==
    r.Course \o <<"\n">> \o StrfHHMM(r.Start) \o <<EN_DASH>> \o StrfHHMM(r.End)

\* cell_text.setdefault(key, []).append(label)
SetDefaultAppend(ct, key, label) ==
    IF key \in DOMAIN ct THEN [ct EXCEPT ![key] = Append(@, label)]
    ELSE [k \in DOMAIN ct \cup {key} |-> IF k = key THEN <<label>> ELSE ct[k]]

RECURSIVE AddSlots(_, _, _, _, _)
AddSlots(ct, slots, d, s, label) ==
    IF slots = <<>> THEN ct
    ELSE AddSlots(SetDefaultAppend(ct, <<d, Head(slots), s>>, label),
                  Tail(slots), d, s, label)

\* One pass of the loop of lines 312-328
AddRecord(ct, r, days) ==
    IF r.Day \notin Range(days) THEN ct
    ELSE AddSlots(ct,
                  iter_slots(floor_minutes(to_minutes(r.Start), TIME_STEP_MIN),
                             ceil_minutes(to_minutes(r.End), TIME_STEP_MIN),
                             TIME_STEP_MIN),
                  r.Day, r.Student, Label(r))

\* The loop of lines 312-328 over the rows of df_all
RECURSIVE BuildCells(_, _, _)
BuildCells(ct, recs, days) ==
    IF recs = <<>> THEN ct
    ELSE BuildCells(AddRecord(ct, Head(recs), days), Tail(recs), days)

\* Lines 304-306
DefaultDays(in_order) == IF in_order = <<>> THEN SubSeq(DAY_ORDER, 1, 5) ELSE in_order

DaysPresent(df) ==
    DefaultDays(SelectSeq(DAY_ORDER, LAMBDA d : \E i \in 1..Len(df) : df[i].Day = d))

\* Line 292
ColorsOf(sl) == [k \in 1..Len(sl) |-> student_color_hex(sl[k])]

\* ceil instead of floor
GridStart_Ceil(min_start) == ceil_minutes(min_start, TIME_STEP_MIN)

\* Line 301
GridStart(min_start) == floor_minutes(min_start, TIME_STEP_MIN)

\* the trailing slot forgotten
GridEnd_NoTrailingSlot(max_end) == ceil_minutes(max_end, TIME_STEP_MIN)

\* Line 302
GridEnd(max_end) == ceil_minutes(max_end, TIME_STEP_MIN) + TIME_STEP_MIN

Min(S) == CHOOSE x \in S : \A y \in S : x <= y

Max(S) == CHOOSE x \in S : \A y \in S : y <= x

-----------------------------------------------------------------------------
(* Rendering, lines 335-427 *)

SheetRowOf(kind, day, time, cells) ==
    [kind |-> kind, day |-> day, time |-> time, cells |-> cells]

\* "\n".join(labels)
RECURSIVE JoinLines(_)
JoinLines(labels) ==
    IF labels = <<>> THEN <<>>
    ELSE IF Len(labels) = 1 THEN Head(labels)
    ELSE Head(labels) \o <<"\n">> \o JoinLines(Tail(labels))

EmptyCell == [value |-> <<>>, fill |-> <<>>]

\* The student cells of one matrix row (lines 378-391)
MatrixCells(day, slot, studs, ct, has, colors) ==
    [k \in 1..Len(studs) |->
        LET key == <<day, slot, studs[k]>>
        IN  IF key \in has
            THEN [value |-> JoinLines(IF key \in DOMAIN ct THEN ct[key] ELSE <<>>),
                  fill |-> <<"F", "F">> \o colors[k]]
            ELSE EmptyCell]

\* The rows of one day up to the first slot minutes_to_time rejects
RECURSIVE DayRows(_, _, _, _, _, _)
DayRows(day, slots, studs, ct, has, colors) ==
    IF slots = <<>> \/ ~minutes_to_time(Head(slots)).ok THEN <<>>
    ELSE <<SheetRowOf("slot", day, StrfHHMM(minutes_to_time(Head(slots)).val),
                      MatrixCells(day, Head(slots), studs, ct, has, colors))>>
         \o DayRows(day, Tail(slots), studs, ct, has, colors)

BlankRow == SheetRowOf("blank", "", <<>>, <<>>)

\* The rows written for the days; the row that row_idx += 1 skips after a
\* day is in the sheet once a later row is written; the loop stops at the
\* first rejected slot
DayThenRest(rows, slots, rest) ==
    IF Len(rows) < Len(slots) \/ rest = <<>> THEN rows
    ELSE rows \o <<BlankRow>> \o rest

RECURSIVE MatrixRows(_, _, _, _, _, _)
MatrixRows(days, slots, studs, ct, has, colors) ==
    IF days = <<>> THEN <<>>
    ELSE DayThenRest(DayRows(Head(days), slots, studs, ct, has, colors), slots,
                     MatrixRows(Tail(days), slots, studs, ct, has, colors))

\* minutes_to_time(slot) of line 373 raises for no slot
AllSlotsFormat(slots) == \A i \in 1..Len(slots) : minutes_to_time(slots[i]).ok

HeaderRow(studs) == SheetRowOf("header", "Day", <<"T", "i", "m", "e">>, studs)

-----------------------------------------------------------------------------
(* The script *)

EmptyMap == [k \in {} |-> <<>>]

Init ==
    /\ pc = "start"
    /\ error = ""
    /\ paths \in { SortedStrings(S) : S \in SUBSET FILES }
    /\ students = <<>>
    /\ records = <<>>
    /\ raw = NoFrame
    /\ rowsRead = 0
    /\ df_all = <<>>
    /\ student_list = <<>>
    /\ student_to_color = <<>>
    /\ grid_start = 0
    /\ grid_end = 0
    /\ days_present = <<>>
    /\ cell_text = EmptyMap
    /\ cell_has_class = {}
    /\ ws = <<>>
    /\ ws_leg = <<>>
    /\ output = Absent
    /\ callArg = NoFrame
    /\ callRet = Idle

\* Lines 231-236
Start ==
    /\ pc = "start"
    /\ IF paths = <<>>
       THEN pc' = "failed" /\ error' = "NoInputFiles"
       ELSE pc' = "load" /\ error' = error
    /\ UNCHANGED <<paths, students, records, raw, rowsRead, df_all, student_list,
                   student_to_color, grid_start, grid_end, days_present,
                   cell_text, cell_has_class, ws, ws_leg, output, callArg, callRet>>

\* The end of one iteration: the records appended, or the run ended
LoadOutcome(loaded) ==
    IF loaded.ok
    THEN /\ records' = records \o loaded.val
         /\ UNCHANGED <<pc, error>>
    ELSE /\ pc' = "failed"
         /\ error' = loaded.err
         /\ UNCHANGED records

\* One iteration of the loop of lines 238-282
LoadFile ==
    /\ pc = "load"
    /\ Len(students) < Len(paths)
    /\ students' = Append(students, SplitextRoot(Basename(paths[Len(students) + 1])))
    /\ \E sheet \in Sheets(MaxRows - rowsRead) :
          /\ raw' = sheet
          /\ rowsRead' = rowsRead + Len(sheet.rows)
          /\ LoadOutcome(LoadRows(students'[Len(students')], sheet))
    /\ UNCHANGED <<paths, df_all, student_list, student_to_color, grid_start,
                   grid_end, days_present, cell_text, cell_has_class, ws, ws_leg,
                   output, callArg, callRet>>

\* Lines 284-292, once the loop is over
CheckRecords ==
    /\ pc = "load"
    /\ Len(students) = Len(paths)
    /\ IF records = <<>>
       THEN /\ pc' = "failed"
            /\ error' = "NoValidRecords"
            /\ UNCHANGED <<df_all, student_list, student_to_color>>
       ELSE /\ pc' = "build"
            /\ error' = error
            /\ df_all' = sort_values(records)
            /\ student_list' = SortedStrings(Range(students))
            /\ student_to_color' = ColorsOf(student_list')
    /\ UNCHANGED <<paths, students, records, raw, rowsRead, grid_start, grid_end,
                   days_present, cell_text, cell_has_class, ws, ws_leg, output,
                   callArg, callRet>>

\* Lines 298-328
BuildGrid ==
    /\ pc = "build"
    /\ grid_start' = GridStart(Min({ to_minutes(df_all[i].Start) : i \in 1..Len(df_all) }))
    /\ grid_end' = GridEnd(Max({ to_minutes(df_all[i].End) : i \in 1..Len(df_all) }))
    /\ days_present' = DaysPresent(df_all)
    /\ cell_text' = BuildCells(EmptyMap, df_all, days_present')
    /\ cell_has_class' = DOMAIN cell_text'
    /\ pc' = "render"
    /\ UNCHANGED <<error, paths, students, records, raw, rowsRead, df_all,
                   student_list, student_to_color, ws, ws_leg, output, callArg,
                   callRet>>

\* Lines 335-427: both sheets are built in memory
Render ==
    /\ pc = "render"
    /\ ws' = <<HeaderRow(student_list)>>
              \o MatrixRows(days_present, iter_slots(grid_start, grid_end, TIME_STEP_MIN),
                            student_list, cell_text, cell_has_class, student_to_color)
    /\ IF AllSlotsFormat(iter_slots(grid_start, grid_end, TIME_STEP_MIN))
       THEN /\ pc' = "save"
            /\ error' = error
            /\ ws_leg' = [k \in 1..Len(student_list) |->
                             [student |-> student_list[k],
                              color |-> student_to_color[k]]]
       ELSE /\ pc' = "failed"
            /\ error' = "hour must be in 0..23"
            /\ UNCHANGED ws_leg
    /\ UNCHANGED <<paths, students, records, raw, rowsRead, df_all, student_list,
                   student_to_color, grid_start, grid_end, days_present,
                   cell_text, cell_has_class, output, callArg, callRet>>

\* wb.save moved before the row loop
Save_BeforeRender ==
    /\ pc \in {"render", "save"}
    /\ output' = [exists |-> TRUE, Matrix |-> ws, Legend |-> ws_leg]
    /\ pc' = "done"
    /\ UNCHANGED <<error, paths, students, records, raw, rowsRead, df_all,
                   student_list, student_to_color, grid_start, grid_end,
                   days_present, cell_text, cell_has_class, ws, ws_leg, callArg,
                   callRet>>

\* Line 430: wb.save(OUTPUT_XLSX)
Save ==
    /\ pc = "save"
    /\ output' = [exists |-> TRUE, Matrix |-> ws, Legend |-> ws_leg]
    /\ pc' = "done"
    /\ UNCHANGED <<error, paths, students, records, raw, rowsRead, df_all,
                   student_list, student_to_color, grid_start, grid_end,
                   days_present, cell_text, cell_has_class, ws, ws_leg, callArg,
                   callRet>>

Next == Start \/ LoadFile \/ CheckRecords \/ BuildGrid \/ Render \/ Save

Spec == Init /\ [][Next]_vars

-----------------------------------------------------------------------------
(* Properties of the script *)

\* Lines 298-328 have run
GridBuilt == days_present # <<>>

\* The render loop raised
RenderFailed == pc = "failed" /\ GridBuilt

RecordSet == { df_all[i] : i \in 1..Len(df_all) }

FloorTo(m, step) == m - (m % step)

CeilTo(m, step) == IF m % step = 0 THEN m ELSE m - (m % step) + step

\* Every multiple of the step up to the end of the day
StepMultiples == { k * TIME_STEP_MIN : k \in 0..((24 * 60) \div TIME_STEP_MIN) }

\* s is floor(start) + k * step for some k >= 0 and is below ceil(end)
InSlots(r, s) ==
    /\ s >= FloorTo(to_minutes(r.Start), TIME_STEP_MIN)
    /\ (s - FloorTo(to_minutes(r.Start), TIME_STEP_MIN)) % TIME_STEP_MIN = 0
    /\ s < CeilTo(to_minutes(r.End), TIME_STEP_MIN)

\* The slots a record occupies: floor start, ceil end, exclusive upper bound
\* (multiples of the step, as floor(start) is one)
SlotSet(r) == { s \in StepMultiples : InSlots(r, s) }

LabelWith(r, sep) ==
    r.Course \o <<"\n">> \o TwoDigits(r.Start.hour) \o <<":">> \o TwoDigits(r.Start.minute)
    \o <<sep>> \o TwoDigits(r.End.hour) \o <<":">> \o TwoDigits(r.End.minute)

\* The slots at which the record's label stands in a cell of its day and student
LabelledSlots(r) ==
    { key[2] : key \in { k \in DOMAIN cell_text :
                           /\ k[1] = r.Day /\ k[3] = r.Student
                           /\ LabelWith(r, EN_DASH) \in Range(cell_text[k]) } }

\* A well-formed row, as the sheet row of the claim C1: course present and
\* not blank, day recognized, start and end times of day
WellFormed(row) ==
    /\ ~IsNA(row[1]) /\ Strip(ToStr(row[1])) # <<>>
    /\ normalize_day(row[2]).ok
    /\ parse_time(row[3]).ok /\ ~IsNA(parse_time(row[3]).val)
    /\ parse_time(row[4]).ok /\ ~IsNA(parse_time(row[4]).val)

RecordOfRow(student, row) ==
    Record(student, Strip(ToStr(row[1])), normalize_day(row[2]).val,
           parse_time(row[3]).val, parse_time(row[4]).val)

ExpectedRecords(student, frame) ==
    LET good(i) == WellFormed(frame.rows[i])
        idx == SelectIdx([i \in 1..Len(frame.rows) |-> good(i)])
    IN  [n \in 1..Len(idx) |-> RecordOfRow(student, frame.rows[idx[n]])]

\* C1: a file whose sheet has its 4 columns never aborts the run: each of its
\* well-formed rows gives exactly one record tagged with the file's student,
\* and every other row (blank or missing course, unparsable or missing day,
\* start or end) gives none.
C1_RowsDroppedNotFatal ==
    [][(pc = "load" /\ Len(students') = Len(students) + 1 /\ standardize_df(raw').ok)
         => /\ pc' = "load"
            /\ records' = records \o ExpectedRecords(students'[Len(students')],
                                                     standardize_df(raw').val)]_vars

\* C2: the slots at which a record adds its label are exactly
\* floor(start), floor(start) + step, ... below ceil(end); 08:00-08:50 and
\* 08:05-08:50 both occupy exactly 08:00, 08:15, 08:30, 08:45.
C2_SlotExpansion ==
    GridBuilt =>
        \A r \in RecordSet :
            /\ LabelledSlots(r) = SlotSet(r)
            /\ (to_minutes(r.Start) \in {480, 485} /\ to_minutes(r.End) = 530)
                  => LabelledSlots(r) = {480, 495, 510, 525}

C2_Witness ==
    /\ GridBuilt
    /\ \E r \in RecordSet :
          /\ to_minutes(r.Start) = 485 /\ to_minutes(r.End) = 530
          /\ <<r.Day, 525, r.Student>> \in cell_has_class
    /\ \E r \in RecordSet :
          /\ to_minutes(r.Start) = 480 /\ to_minutes(r.End) = 530
          /\ <<r.Day, 525, r.Student>> \in cell_has_class

\* The labels the claim C3 puts in a cell, in processing order
ExpectedCell(key, sep) ==
    LET here(i) == /\ df_all[i].Day = key[1] /\ df_all[i].Student = key[3]
                   /\ InSlots(df_all[i], key[2])
        idx == SelectIdx([i \in 1..Len(df_all) |-> here(i)])
    IN  [n \in 1..Len(idx) |-> LabelWith(df_all[idx[n]], sep)]

\* Every key a record can reach, and every key of the map
ExpectedKeys ==
    { <<r.Day, s, r.Student>> : r \in RecordSet, s \in StepMultiples }
    \cup DOMAIN cell_text

MathMonday(student) ==
    Record(student, <<"M", "a", "t", "h">>, "Monday", Time(9, 0, 0), Time(10, 0, 0))

\* alice and bob each have exactly one record, Monday 09:00-10:00 Math
AliceAndBob == Len(df_all) = 2 /\ RecordSet = {MathMonday(ALICE), MathMonday(BOB)}

CellsAsClaimed(sep) ==
    GridBuilt =>
        /\ \A key \in ExpectedKeys :
              IF ExpectedCell(key, sep) = <<>> THEN key \notin DOMAIN cell_text
              ELSE key \in DOMAIN cell_text /\ cell_text[key] = ExpectedCell(key, sep)
        /\ AliceAndBob =>
              \A who \in {ALICE, BOB} :
                  /\ <<"Monday", 540, who>> \in DOMAIN cell_text
                  /\ cell_text[<<"Monday", 540, who>>] =
                        << <<"M", "a", "t", "h", "\n", "0", "9", ":", "0", "0", sep,
                             "1", "0", ":", "0", "0">> >>
                  /\ \A key \in DOMAIN cell_text :
                        key[3] = who => key[1] = "Monday" /\ 540 <= key[2] /\ key[2] < 600

\* C3 as stated: every record puts "{course}\n{start}-{end}", times as HH:MM
\* joined by a plain hyphen, in the cells of its day, its occupied slots and
\* its student, and in no other cell.
C3_LabelsWithHyphen == CellsAsClaimed("-")

\* C3 amended: the same, with the times joined by an en dash (U+2013).
C3_LabelsWithEnDash == CellsAsClaimed(EN_DASH)

C3_Witness ==
    /\ GridBuilt /\ AliceAndBob
    /\ cell_text[<<"Monday", 585, BOB>>] = << LabelWith(MathMonday(BOB), EN_DASH) >>

\* gridStart, gridStart + step, ... below gridEnd
GridSlots ==
    { s \in { grid_start + k * TIME_STEP_MIN : k \in 0..((24 * 60) \div TIME_STEP_MIN) } :
        s < grid_end }

\* The matrix rows a complete rendering holds: the header, one row per day
\* and grid slot, and one blank row between two days
FullMatrixLen ==
    LET n == Cardinality(GridSlots)
    IN  1 + Len(days_present) * n + (IF n > 0 THEN Len(days_present) - 1 ELSE 0)

\* C4: OUTPUT_XLSX is written only once every file is loaded, the grid is
\* built and both sheets are rendered in full; a run that ends in a fatal
\* error never writes it; with no input file the run fails with NoInputFiles
\* before any file is read.
C4_OutputLast ==
    /\ output.exists =>
          /\ pc = "done" /\ error = ""
          /\ Len(students) = Len(paths) /\ records # <<>> /\ GridBuilt
          /\ output.Matrix = ws /\ Len(ws) = FullMatrixLen
          /\ Len(output.Legend) = Len(student_list)
    /\ pc = "done" => output.exists
    /\ pc = "failed" => ~output.exists /\ error # ""
    /\ (paths = <<>> /\ pc # "start") => pc = "failed" /\ error = "NoInputFiles"
    /\ error = "NoInputFiles" =>
          paths = <<>> /\ students = <<>> /\ raw = NoFrame /\ rowsRead = 0

C4_Witness ==
    /\ pc = "done" /\ output.exists /\ Len(students) = 2
    /\ Len(output.Matrix) > 1

\* C5: with at least one input file and no record surviving validation, the
\* run fails with NoValidRecords, after every file has been read and before
\* any grid building or rendering; with a surviving record NoValidRecords is
\* not raised.  (A sheet with fewer than 4 columns is fatal on its own.)
C5_NoValidRecords ==
    /\ (pc = "failed" /\ paths # <<>> /\ records = <<>> /\ error # "InsufficientColumns")
          => error = "NoValidRecords" /\ Len(students) = Len(paths)
    /\ error = "NoValidRecords" => records = <<>> /\ ~GridBuilt /\ ws = <<>>
    /\ records # <<>> => error # "NoValidRecords"

\* The time labels of the rows rendered for a day
RenderedTimes(d) ==
    LET rows == SelectSeq(ws, LAMBDA row : row.kind = "slot" /\ row.day = d)
    IN  [i \in 1..Len(rows) |-> rows[i].time]

HHMM(m) == TwoDigits(m \div 60) \o <<":">> \o TwoDigits(m % 60)

C9_RenderNeverFails ==
    GridBuilt => /\ \A s \in GridSlots : s \in 0..(24 * 60 - 1)
                 /\ ~RenderFailed

\* The cell rendered for a key: the cells of the rows of its day and time
\* in the column of its student
RenderedCells(key) ==
    LET rows == SelectSeq(ws, LAMBDA row : /\ row.kind = "slot" /\ row.day = key[1]
                                           /\ row.time = HHMM(key[2]))
        col == CHOOSE k \in 1..Len(student_list) : student_list[k] = key[3]
    IN  [i \in 1..Len(rows) |-> rows[i].cells[col]]

====
